---- MODULE Spec2Model ----
(***************************************************************************)
(* A model of the claude-code-validator engine: the rule registration     *)
(* list, the hook bus it dispatches through, one validate call as the     *)
(* sequence of its awaits, and the validate command around it.            *)
(***************************************************************************)
EXTENDS Integers, Sequences, FiniteSets, TLC

VARIABLES rules, hooks, calls, cli, loader

vars == <<rules, hooks, calls, cli, loader>>

(***************************************************************************)
(* Bounds of the model.                                                    *)
(***************************************************************************)
MaxRules == 2
MaxExt == 1

(***************************************************************************)
(* JavaScript values.                                                      *)
(***************************************************************************)
UNDEF == "<undefined>"

\* values that are not strings, as JSON.parse can give them
JNULL == "<null>"
ZERO == "<number 0>"
NUM == "<number 42>"

\* the values || passes over
Falsy == {UNDEF, "", JNULL, ZERO}

\* a || b
OrElse(a, b) == IF a \in Falsy THEN b ELSE a

Val(s) == [def |-> TRUE, val |-> s]
NoVal == [def |-> FALSE, val |-> <<>>]

(***************************************************************************)
(* ClaudeCodeHookInput values and the context built from them.             *)
(***************************************************************************)
ToolInput(fp, c, ns, os) ==
  [file_path |-> fp, content |-> c, new_string |-> ns, old_string |-> os]

NoToolInput == ToolInput(UNDEF, UNDEF, UNDEF, UNDEF)

HookInput(tn, has, ti) == [obj |-> TRUE, tool_name |-> tn, has_input |-> has, tool_input |-> ti]

\* what JSON.parse gives for the text "null"
NullInput == [obj |-> FALSE, tool_name |-> UNDEF, has_input |-> FALSE, tool_input |-> NoToolInput]

Inputs ==
  { HookInput("Write", TRUE, ToolInput("x.ts", "bad", UNDEF, UNDEF)),
    HookInput("Write", TRUE, ToolInput("x.ts", "ok", UNDEF, UNDEF)),
    HookInput("Write", TRUE, ToolInput("x.ts", "boom", UNDEF, UNDEF)),
    HookInput("Write", TRUE, ToolInput("y.md", "ok", UNDEF, UNDEF)),
    HookInput("Edit", TRUE, ToolInput("y.md", UNDEF, "bad", "ok")),
    HookInput("Edit", TRUE, ToolInput("x.ts", "", "bad", "ok")),
    HookInput("Write", TRUE, ToolInput(UNDEF, "bad", UNDEF, UNDEF)),
    HookInput("Write", FALSE, NoToolInput),
    NullInput }

\* what a payload field can hold: absent, strings, and values of another kind
FieldValues == {UNDEF, "", "bad", JNULL, ZERO, NUM}

\* raw requests: any tool name, tool_input absent or with any fields (a
\* tool_input that is a string or a number reads like one with no fields)
RawInputs ==
  {HookInput(tn, TRUE, ToolInput(fp, c, ns, os)) :
     tn \in {"Edit", "Write", "Bash", UNDEF, NUM}, fp \in {UNDEF, "x.ts", NUM},
     c \in FieldValues, ns \in FieldValues, os \in FieldValues}
  \cup {HookInput(tn, FALSE, NoToolInput) : tn \in {"Edit", "Write", UNDEF}}
  \cup {NullInput}

NoCtx == [toolName |-> UNDEF, filePath |-> UNDEF, content |-> UNDEF,
          oldContent |-> UNDEF, operation |-> UNDEF]

\* input.tool_name and toolInput.file_path raise a TypeError on null / undefined
ParseInputThrows(input) == ~input.obj \/ ~input.has_input

ParseInput(input) ==
  [toolName |-> input.tool_name,
   filePath |-> OrElse(input.tool_input.file_path, ""),
   content |-> OrElse(input.tool_input.content, OrElse(input.tool_input.new_string, "")),
   oldContent |-> OrElse(input.tool_input.old_string, ""),
   operation |-> IF input.tool_name = "Edit" THEN "edit" ELSE "write"]

(***************************************************************************)
(* The rules that can be registered.  A rule is an object given to the    *)
(* engine; what its shouldRun and validate do is the rule author's.       *)
(***************************************************************************)
RuleIds == {"rA", "rB", "rC", "rD"}

RuleName(r) ==
  CASE r = "rA" -> "a"
    [] r = "rB" -> "b"
    [] r = "rC" -> "a"
    [] r = "rD" -> "after"

RuleAsync(r) == r = "rB"

ShouldRunThrows(r, ctx) == r = "rD" /\ ctx.filePath = ""

ShouldRun(r, ctx) ==
  CASE r = "rA" -> ctx.filePath = "x.ts"
    [] r = "rB" -> ctx.content # "ok"
    [] r = "rC" -> ctx.operation = "edit"
    [] r = "rD" -> ctx.filePath = "x.ts"

RuleValidateThrows(r, ctx) == r = "rD" /\ ctx.content = "boom"

RuleValidate(r, ctx) ==
  CASE r = "rA" -> IF ctx.content = "bad" THEN <<"A1", "A2">> ELSE <<>>
    [] r = "rB" -> IF ctx.content = "bad" THEN <<"B1">> ELSE <<>>
    [] r = "rC" -> <<"C1">>
    [] r = "rD" -> IF ctx.content = "bad" THEN <<"D1">> ELSE <<>>

(***************************************************************************)
(* Hook channels and handlers.                                             *)
(***************************************************************************)
BeforeChannel == "validate:before"
AfterChannel == "validate:after"

\* `validate:${rule.name}`
RuleChannel(name) ==
  CASE name = "a" -> "validate:a"
    [] name = "b" -> "validate:b"
    [] name = "after" -> "validate:after"

Channels == {BeforeChannel, AfterChannel} \cup {RuleChannel(RuleName(r)) : r \in RuleIds}

\* the closure registerRule binds for the rule at position pos
RuleHandler(r, pos) == [kind |-> "rule", rule |-> r, pos |-> pos]

ExtHandler(kind) == [kind |-> kind, rule |-> "none", pos |-> 0]

\* handlers a caller can add through getHooks()
ExtHooks ==
  { [ch |-> BeforeChannel, kind |-> "observe"],
    [ch |-> AfterChannel, kind |-> "push"],
    [ch |-> AfterChannel, kind |-> "clear"],
    [ch |-> "validate:a", kind |-> "observe"] }

\* handlers that write to the context object they are handed
CtxHooks == ExtHooks \cup {[ch |-> BeforeChannel, kind |-> "rewrite"]}

IsExt(h) == h.kind # "rule"

NumExt(hk) == Cardinality({<<ch, k>> \in Channels \X (1..(MaxRules + MaxExt + 1)) :
                              k <= Len(hk[ch]) /\ IsExt(hk[ch][k])})

(***************************************************************************)
(* createValidator: the engine's state and one validate call.             *)
(***************************************************************************)
CallIds == {"c1"}

\* what a call has done so far, in order (kept for the statements about order)
Ev(ev, ch, idx, pos, arg) == [ev |-> ev, ch |-> ch, idx |-> idx, pos |-> pos, arg |-> arg]

NoResult == [valid |-> FALSE, errors |-> <<>>]

IdleCall ==
  [pc |-> "idle", input |-> NullInput, ctx |-> NoCtx, errors |-> <<>>, i |-> 0,
   chan |-> "", hk |-> <<>>, k |-> 0, busy |-> FALSE, withErrs |-> FALSE,
   res |-> NoVal, result |-> NoResult, running |-> {}, log |-> <<>>, text |-> NoVal]

AllIdle == \A c \in DOMAIN calls : calls[c].pc = "idle"

\* hooks.hook(name, fn): fn joins the handlers of name, last
Hook(hs, ch, h) == [hs EXCEPT ![ch] = Append(@, h)]

\* (variant) registerRule binds no second handler on a channel that has one
RegisterHooksOnce(hs, r, pos) ==
  IF Len(hs[RuleChannel(RuleName(r))]) > 0 THEN hs
  ELSE Hook(hs, RuleChannel(RuleName(r)), RuleHandler(r, pos))

\* registerRule, the handler table afterwards
RegisterHooks(hs, r, pos) == Hook(hs, RuleChannel(RuleName(r)), RuleHandler(r, pos))

\* rules are registered and handlers added between calls, never during one
RegisterRule(r) ==
  /\ AllIdle
  /\ Len(rules) < MaxRules
  /\ rules' = Append(rules, r)
  /\ hooks' = RegisterHooks(hooks, r, Len(rules) + 1)
  /\ UNCHANGED <<calls, cli, loader>>

\* getHooks().hook(channel, handler) by the engine's user
HookExternal(e) ==
  /\ AllIdle
  /\ NumExt(hooks) < MaxExt
  /\ hooks' = Hook(hooks, e.ch, ExtHandler(e.kind))
  /\ UNCHANGED <<rules, calls, cli, loader>>

\* hooks.callHook(ch, context[, errors]) begins: the handlers of ch as they are now
CallHook(cl, hs, ch, behalf, we) ==
  [cl EXCEPT !.chan = ch, !.hk = hs[ch], !.k = 1, !.busy = FALSE, !.withErrs = we,
             !.res = NoVal,
             !.log = Append(@, Ev("fire", ch, behalf, 0, IF we THEN cl.errors ELSE <<>>))]

Raise(cl) == [cl EXCEPT !.pc = "raised", !.busy = FALSE, !.running = {}]

\* the value callHook resolves to once handler k has resolved to ret
Resolved(prev, ret) == ret

\* a handler resolved to ret: the serial caller moves to the next one
HandlerReturns(cl, ret) ==
  [cl EXCEPT !.res = Resolved(cl.res, ret), !.k = @ + 1, !.busy = FALSE,
             !.log = Append(@, Ev("end", cl.chan, cl.k, cl.hk[cl.k].pos, <<>>))]

\* (variant) the handler catches what rule.validate throws and reports nothing
RuleHandlerSwallows(cl, h) ==
  IF RuleValidateThrows(h.rule, cl.ctx)
  THEN HandlerReturns(cl, Val(<<>>))
  ELSE HandlerReturns(cl, Val(RuleValidate(h.rule, cl.ctx)))

\* the handler registerRule bound: return await rule.validate(context)
RuleHandlerSettles(cl, h) ==
  IF RuleValidateThrows(h.rule, cl.ctx)
  THEN Raise(cl)
  ELSE HandlerReturns(cl, Val(RuleValidate(h.rule, cl.ctx)))

\* a handler added through getHooks(); push and clear use their second argument,
\* rewrite assigns to a field of its first (context.content = 'ok')
ExtHandlerRuns(cl, h) ==
  CASE h.kind = "observe" -> HandlerReturns(cl, NoVal)
    [] h.kind = "push" ->
         IF cl.withErrs
         THEN HandlerReturns([cl EXCEPT !.errors = Append(@, "X1")], NoVal)
         ELSE Raise(cl)
    [] h.kind = "clear" ->
         IF cl.withErrs
         THEN HandlerReturns([cl EXCEPT !.errors = <<>>], NoVal)
         ELSE Raise(cl)
    [] h.kind = "rewrite" -> HandlerReturns([cl EXCEPT !.ctx.content = "ok"], NoVal)

InHook(cl) == cl.pc \in {"before", "rule", "after"}

\* the serial caller may invoke handler k
CanRun(cl) == InHook(cl) /\ ~cl.busy /\ cl.k <= Len(cl.hk)

Started(cl) == [cl EXCEPT !.log = Append(@, Ev("start", cl.chan, cl.k, cl.hk[cl.k].pos, <<>>))]

RunHandler(c) ==
  LET cl == calls[c]
      h == cl.hk[cl.k]
  IN /\ CanRun(cl)
     /\ calls' = [calls EXCEPT ![c] =
          IF h.kind = "rule"
          THEN IF RuleAsync(h.rule)
               THEN [Started(cl) EXCEPT !.busy = TRUE, !.running = @ \cup {h.pos}]
               ELSE RuleHandlerSettles(Started(cl), h)
          ELSE ExtHandlerRuns(Started(cl), h)]
     /\ UNCHANGED <<rules, hooks, cli, loader>>

\* an asynchronous rule's validate settles
AwaitHandler(c) ==
  LET cl == calls[c]
      h == cl.hk[cl.k]
  IN /\ InHook(cl) /\ cl.busy
     /\ calls' = [calls EXCEPT ![c] =
          RuleHandlerSettles([cl EXCEPT !.running = @ \ {h.pos}], h)]
     /\ UNCHANGED <<rules, hooks, cli, loader>>

\* the promise callHook returned has resolved: every handler has settled
HookSettled(cl) == ~cl.busy /\ cl.k > Len(cl.hk)

\* (variant) the call goes on without awaiting the promise
AwaitedEarly(cl) == TRUE

\* await hooks.callHook(...): the call resumes
Awaited(cl) == HookSettled(cl)

\* validate(input) up to its first await
Begin(cl, hs, input) ==
  IF ParseInputThrows(input)
  THEN [cl EXCEPT !.pc = "raised", !.input = input]
  ELSE CallHook([cl EXCEPT !.pc = "before", !.input = input, !.ctx = ParseInput(input)],
                hs, BeforeChannel, 0, FALSE)

StartValidate(c, input) ==
  /\ calls[c].pc = "idle"
  /\ calls' = [calls EXCEPT ![c] = Begin(calls[c], hooks, input)]
  /\ UNCHANGED <<rules, hooks, cli, loader>>

\* const errors = []; the loop begins
BeforeDone(c) ==
  LET cl == calls[c]
  IN /\ cl.pc = "before" /\ Awaited(cl)
     /\ calls' = [calls EXCEPT ![c] = [cl EXCEPT !.pc = "loop", !.errors = <<>>, !.i = 1]]
     /\ UNCHANGED <<rules, hooks, cli, loader>>

\* the loop may take its next rule
CanConsult(cl) == cl.pc = "loop"

\* (variant) the loop invokes every rule's channel, applicable or not
ConsultAlways(cl, hs, r) ==
  CallHook([cl EXCEPT !.pc = "rule", !.log = Append(@, Ev("shouldRun", "", cl.i, 0, <<>>))],
           hs, RuleChannel(RuleName(r)), cl.i, FALSE)

\* (variant) the loop does not move on from a rule that declines
ConsultStuck(cl, hs, r) ==
  IF ShouldRunThrows(r, cl.ctx)
  THEN Raise(cl)
  ELSE IF ShouldRun(r, cl.ctx)
       THEN CallHook([cl EXCEPT !.pc = "rule"], hs, RuleChannel(RuleName(r)), cl.i, FALSE)
       ELSE cl

\* if (rule.shouldRun(context)) { ... callHook(`validate:${rule.name}`, context)
Consult(cl, hs, r) ==
  LET seen == [cl EXCEPT !.log = Append(@, Ev("shouldRun", "", cl.i, 0, <<>>))]
  IN IF ShouldRunThrows(r, cl.ctx)
     THEN Raise(seen)
     ELSE IF ShouldRun(r, cl.ctx)
          THEN CallHook([seen EXCEPT !.pc = "rule"], hs, RuleChannel(RuleName(r)), cl.i, FALSE)
          ELSE [seen EXCEPT !.i = @ + 1]

ConsultRule(c) ==
  LET cl == calls[c]
  IN /\ CanConsult(cl) /\ cl.i <= Len(rules)
     /\ calls' = [calls EXCEPT ![c] = Consult(cl, hooks, rules[cl.i])]
     /\ UNCHANGED <<rules, hooks, cli, loader>>

\* if (result && result.length > 0) errors.push(...result)
Aggregate(errors, res) ==
  IF res.def /\ Len(res.val) > 0 THEN errors \o res.val ELSE errors

RuleDone(c) ==
  LET cl == calls[c]
  IN /\ cl.pc = "rule" /\ Awaited(cl)
     /\ calls' = [calls EXCEPT ![c] =
          [cl EXCEPT !.pc = "loop", !.errors = Aggregate(cl.errors, cl.res), !.i = @ + 1,
                     !.log = Append(@, Ev("done", "", cl.i, 0, Aggregate(cl.errors, cl.res)))]]
     /\ UNCHANGED <<rules, hooks, cli, loader>>

\* await hooks.callHook('validate:after', context, errors)
After(cl, hs) == CallHook([cl EXCEPT !.pc = "after"], hs, AfterChannel, 0, TRUE)

FireAfter(c) ==
  LET cl == calls[c]
  IN /\ CanConsult(cl) /\ cl.i > Len(rules)
     /\ calls' = [calls EXCEPT ![c] = After(cl, hooks)]
     /\ UNCHANGED <<rules, hooks, cli, loader>>

\* the aggregate validate:after was last fired with
FiredWith(cl) ==
  LET ps == {p \in 1..Len(cl.log) : cl.log[p].ev = "fire" /\ cl.log[p].ch = AfterChannel}
  IN IF ps = {} THEN <<>> ELSE cl.log[CHOOSE p \in ps : \A q \in ps : q <= p].arg

\* (variant) valid is decided before validate:after has run
ReturnValueStale(cl) == [valid |-> Len(FiredWith(cl)) = 0, errors |-> cl.errors]

\* return { valid: errors.length === 0, errors, formatErrors }
ReturnValue(cl) == [valid |-> Len(cl.errors) = 0, errors |-> cl.errors]

\* (variant) the call removes every handler once it has its result
AfterDoneCleans(c) ==
  LET cl == calls[c]
  IN /\ cl.pc = "after" /\ Awaited(cl)
     /\ calls' = [calls EXCEPT ![c] = [cl EXCEPT !.pc = "returned", !.result = ReturnValue(cl)]]
     /\ hooks' = [ch \in Channels |-> <<>>]
     /\ UNCHANGED <<rules, cli, loader>>

AfterDone(c) ==
  LET cl == calls[c]
  IN /\ cl.pc = "after" /\ Awaited(cl)
     /\ calls' = [calls EXCEPT ![c] = [cl EXCEPT !.pc = "returned", !.result = ReturnValue(cl)]]
     /\ UNCHANGED <<rules, hooks, cli, loader>>

Finished(cl) == cl.pc \in {"returned", "raised"}

\* the caller is done with the result; the engine can be used again
Reset(c) ==
  /\ Finished(calls[c])
  /\ cli.pc = "off"
  /\ calls' = [calls EXCEPT ![c] = IdleCall]
  /\ UNCHANGED <<rules, hooks, cli, loader>>

(***************************************************************************)
(* Rule discovery: loadRules over the files of a rules directory.         *)
(***************************************************************************)
File(dirs, stem, mid, ext, loads, exports) ==
  [dirs |-> dirs, stem |-> stem, mid |-> mid, ext |-> ext, loads |-> loads, exports |-> exports]

\* an exported value, by the typeof of the four fields isValidationRule reads
Export(obj, tn, td, ts, tv, r) ==
  [obj |-> obj, name |-> tn, description |-> td, shouldRun |-> ts, validate |-> tv, rule |-> r]

RuleExport(r) == Export(TRUE, "string", "string", "function", "function", r)

\* (variant) the check forgets the validate member
IsValidationRuleLoose(e) ==
  /\ e.obj
  /\ e.name = "string"
  /\ e.description = "string"
  /\ e.shouldRun = "function"

IsValidationRule(e) ==
  /\ e.obj
  /\ e.name = "string"
  /\ e.description = "string"
  /\ e.shouldRun = "function"
  /\ e.validate = "function"

\* glob(`${rulesDir}/**/*.{ts,js}`, {ignore: ['**/*.test.ts', '**/*.spec.ts', '**/node_modules/**']})
Globbed(f) ==
  /\ f.ext \in {"ts", "js"}
  /\ ~(f.mid = "test" /\ f.ext = "ts")
  /\ ~(f.mid = "spec" /\ f.ext = "ts")
  /\ \A k \in 1..Len(f.dirs) : f.dirs[k] # "node_modules"

\* for (const exp of exports) if (isValidationRule(exp)) rules.push(exp)
RECURSIVE RulesOf(_)
RulesOf(exports) ==
  IF exports = <<>> THEN <<>>
  ELSE (IF IsValidationRule(Head(exports)) THEN <<Head(exports).rule>> ELSE <<>>)
       \o RulesOf(Tail(exports))

\* for (const file of ruleFiles) try { import(file) ... } catch { console.warn }
RECURSIVE LoadFiles(_)
LoadFiles(files) ==
  IF files = <<>> THEN <<>>
  ELSE (IF Globbed(Head(files)) /\ Head(files).loads THEN RulesOf(Head(files).exports) ELSE <<>>)
       \o LoadFiles(Tail(files))

\* a directory: whether enumerating it fails, and its files in enumeration order
Dir(fails, files) == [fails |-> fails, files |-> files]

LoadRules(dir) == IF dir.fails THEN <<>> ELSE LoadFiles(dir.files)

FileA == File(<<>>, "rule-a", "", "ts", TRUE, <<RuleExport("rA")>>)
FileATest == File(<<>>, "rule-a", "test", "ts", TRUE, <<RuleExport("rC")>>)
FileNotARule ==
  File(<<>>, "not-a-rule", "", "ts", TRUE,
       <<Export(TRUE, "string", "string", "function", "undefined", "rD")>>)
FileBroken == File(<<>>, "broken", "", "ts", FALSE, <<RuleExport("rC")>>)
FileBD == File(<<"sub">>, "rules", "", "js", TRUE, <<RuleExport("rB"), RuleExport("rD")>>)
FileC == File(<<>>, "rule-c", "", "ts", TRUE, <<RuleExport("rC")>>)

RulesDirs ==
  { Dir(TRUE, <<>>),
    Dir(FALSE, <<>>),
    Dir(FALSE, <<FileATest, FileNotARule, FileBroken>>),
    Dir(FALSE, <<FileA, FileATest, FileNotARule>>),
    Dir(FALSE, <<FileBroken, FileA, FileBD>>),
    Dir(FALSE, <<FileA, FileC>>) }

(***************************************************************************)
(* loadRules, one await at a time.                                         *)
(***************************************************************************)
\* the most files a rules directory of the model holds
MaxFiles == 3

FileBTestJs == File(<<>>, "rule-b", "test", "js", TRUE, <<RuleExport("rB")>>)
FileSpecTs == File(<<"sub">>, "rule-d", "spec", "ts", TRUE, <<RuleExport("rD")>>)
FileDep == File(<<"node_modules", "pkg">>, "index", "", "js", TRUE, <<RuleExport("rD")>>)
FileJson == File(<<>>, "data", "", "json", TRUE, <<RuleExport("rB")>>)
\* a helper function, a rule, an object whose name is a number
FileMixed ==
  File(<<>>, "mixed", "", "ts", TRUE,
       <<Export(FALSE, "string", "undefined", "undefined", "undefined", "rA"),
         RuleExport("rC"),
         Export(TRUE, "number", "string", "function", "function", "rD")>>)

FileBroken2 == File(<<"sub">>, "broken2", "", "js", FALSE, <<RuleExport("rB")>>)

LoadFileSet ==
  {FileA, FileATest, FileNotARule, FileBroken, FileBroken2, FileBD, FileMixed,
   FileBTestJs, FileSpecTs, FileDep, FileJson}

\* the directories loadRules is given: distinct files, in the order glob walks them
LoadDirs ==
  {Dir(TRUE, <<>>)} \cup
  {Dir(FALSE, fs) : fs \in {s \in UNION {[1..k -> LoadFileSet] : k \in 0..MaxFiles} :
                               \A a, b \in DOMAIN s : a # b => s[a] # s[b]}}

\* no loadRules call is under way
LoaderOff == [pc |-> "off"]

\* const rules = []; the call is about to enumerate dir
LoaderStart(dir) ==
  [pc |-> "glob", dir |-> dir, ruleFiles |-> <<>>, n |-> 0, rules |-> <<>>,
   loaded |-> <<>>, warned |-> <<>>, logged |-> FALSE, result |-> <<>>]

\* what glob resolves to: the files the pattern matches and the ignore list spares
Enumerate(files) == SelectSeq(files, Globbed)

\* (variant) no outer try: a failed enumeration rejects the call
EnumerationRaises(ld) == [ld EXCEPT !.pc = "raised"]

\* catch (error) { console.error('Error loading rules:', error); return [] }
EnumerationFailed(ld) == [ld EXCEPT !.pc = "returned", !.logged = TRUE, !.result = <<>>]

\* (variant) no inner try: a failed import is caught by the outer handler
ImportAborts(ld, f) == EnumerationFailed(ld)

\* catch (error) { console.warn(`Failed to load rule from ${file}:`, error) }
ImportFailed(ld, f) == [ld EXCEPT !.warned = Append(@, f), !.n = @ + 1]

\* const module = await import(file); every export that passes the check is pushed
Imported(ld, f) ==
  [ld EXCEPT !.loaded = Append(@, f), !.rules = @ \o RulesOf(f.exports), !.n = @ + 1]

\* const ruleFiles = await glob(...)
LoadGlob ==
  /\ loader.pc = "glob"
  /\ loader' = IF loader.dir.fails
               THEN EnumerationFailed(loader)
               ELSE [loader EXCEPT !.pc = "files", !.ruleFiles = Enumerate(loader.dir.files),
                                   !.n = 1]
  /\ UNCHANGED <<rules, hooks, calls, cli>>

\* one turn of for (const file of ruleFiles)
LoadImport ==
  /\ loader.pc = "files"
  /\ loader.n <= Len(loader.ruleFiles)
  /\ LET f == loader.ruleFiles[loader.n]
     IN loader' = IF f.loads THEN Imported(loader, f) ELSE ImportFailed(loader, f)
  /\ UNCHANGED <<rules, hooks, calls, cli>>

\* return rules
LoadReturn ==
  /\ loader.pc = "files"
  /\ loader.n > Len(loader.ruleFiles)
  /\ loader' = [loader EXCEPT !.pc = "returned", !.result = loader.rules]
  /\ UNCHANGED <<rules, hooks, calls, cli>>

(***************************************************************************)
(* The validate command.                                                   *)
(***************************************************************************)
Header == "\nVALIDATION ERRORS:\n\n"

\* errors.map(e => `${e}`).join('\n\n'), as the pieces of the string
RECURSIVE Join(_)
Join(errors) ==
  IF Len(errors) = 0 THEN <<>>
  ELSE IF Len(errors) = 1 THEN <<errors[1]>>
  ELSE <<errors[1], "\n\n">> \o Join(Tail(errors))

\* (variant) the header is written for an empty errors too
FormatErrorsAlways(errors) == <<Header>> \o Join(errors)

\* formatErrors(), as the pieces of the string it returns (none: the empty string)
FormatErrors(errors) == IF Len(errors) = 0 THEN <<>> ELSE <<Header>> \o Join(errors)

\* the caller of validate calls result.formatErrors() and keeps the string
FormatResult(c) ==
  LET cl == calls[c]
  IN /\ cl.pc = "returned" /\ ~cl.text.def
     /\ calls' = [calls EXCEPT ![c] = [cl EXCEPT !.text = Val(FormatErrors(cl.result.errors))]]
     /\ UNCHANGED <<rules, hooks, cli, loader>>

\* the text on standard input: whether JSON.parse accepts it, and the value it denotes
StdinTexts == {[json |-> FALSE, value |-> NullInput]} \cup {[json |-> TRUE, value |-> v] : v \in Inputs}

\* no command runs: the engine is used as a library
CliOff == [pc |-> "off"]

\* the command at its start, in an environment
CliStart(wr, root, d, us, t) ==
  [pc |-> "start", withRoot |-> wr, root |-> root, dir |-> d, useStdin |-> us,
   stdin |-> t, found |-> <<>>, n |-> 0, read |-> FALSE, exit |-> -1, stderr |-> <<>>]

\* process.exit(code) after the console.error lines written before it
Exit(st, code, lines) == [st EXCEPT !.pc = "exited", !.exit = code, !.stderr = @ \o lines]

\* findProjectRoot() and its check (the command of cli.ts has neither)
CliFindRoot ==
  /\ cli.pc = "start"
  /\ cli' = IF cli.withRoot /\ ~cli.root
            THEN Exit(cli, 1, <<<<"Could not find .claude directory">>, <<"Make sure you have a .claude/ directory">>>>)
            ELSE [cli EXCEPT !.pc = "load"]
  /\ UNCHANGED <<rules, hooks, calls, loader>>

\* (variant) the command goes on with the rules it found, none included
CliLoadRulesLate ==
  /\ cli.pc = "load"
  /\ cli' = [cli EXCEPT !.pc = "register", !.found = LoadRules(cli.dir), !.n = 1]
  /\ UNCHANGED <<rules, hooks, calls, loader>>

\* const rules = await loadRules(rulesPath); if (rules.length === 0) process.exit(1)
CliLoadRules ==
  /\ cli.pc = "load"
  /\ LET found == LoadRules(cli.dir)
     IN cli' = IF Len(found) = 0
               THEN Exit(cli, 1, <<<<"No validation rules found">>, <<"Create rule files">>>>)
               ELSE [cli EXCEPT !.pc = "register", !.found = found, !.n = 1]
  /\ UNCHANGED <<rules, hooks, calls, loader>>

\* for (const rule of rules) validator.registerRule(rule)
CliRegister ==
  /\ cli.pc = "register"
  /\ cli.n <= Len(cli.found)
  /\ rules' = Append(rules, cli.found[cli.n])
  /\ hooks' = RegisterHooks(hooks, cli.found[cli.n], Len(rules) + 1)
  /\ cli' = [cli EXCEPT !.n = @ + 1]
  /\ UNCHANGED <<calls, loader>>

\* the exit code of a failed read of the input
BadInputExit == 1

\* if (args.stdin) { try { input = JSON.parse(await Bun.stdin.text()) } catch { exit(1) } }
\* else exit(1); then validator.validate(input) begins
CliReadInput ==
  /\ cli.pc = "register"
  /\ cli.n > Len(cli.found)
  /\ IF ~cli.useStdin
     THEN /\ cli' = Exit(cli, BadInputExit, <<<<"--stdin is required">>>>)
          /\ UNCHANGED calls
     ELSE IF ~cli.stdin.json
     THEN /\ cli' = Exit([cli EXCEPT !.read = TRUE], BadInputExit,
                         <<<<"Failed to parse stdin input">>, <<"SyntaxError">>>>)
          /\ UNCHANGED calls
     ELSE /\ cli' = [cli EXCEPT !.pc = "validate", !.read = TRUE]
          /\ calls' = [calls EXCEPT !["c1"] = Begin(calls["c1"], hooks, cli.stdin.value)]
  /\ UNCHANGED <<rules, hooks, loader>>

\* (variant) an invalid result exits like an operational failure
ResultExitOne(result) == IF ~result.valid THEN 1 ELSE 0

\* the exit code for a result
ResultExit(result) == IF ~result.valid THEN 2 ELSE 0

\* what the command writes for a result before it exits
ResultLines(result) == IF ~result.valid THEN <<FormatErrors(result.errors)>> ELSE <<>>

\* a rejection of run() reaches runMain, which reports it and exits with 1
RejectedExit == 1

CliFinish ==
  /\ cli.pc = "validate"
  /\ Finished(calls["c1"])
  /\ cli' = IF calls["c1"].pc = "returned"
            THEN Exit(cli, ResultExit(calls["c1"].result), ResultLines(calls["c1"].result))
            ELSE Exit(cli, RejectedExit, <<<<"Error">>>>)
  /\ UNCHANGED <<rules, hooks, calls, loader>>

Init ==
  /\ rules = <<>>
  /\ hooks = [ch \in Channels |-> <<>>]
  /\ calls = [c \in CallIds |-> IdleCall]
  /\ cli = CliOff
  /\ loader = LoaderOff

Next ==
  \/ \E r \in RuleIds : RegisterRule(r)
  \/ \E e \in ExtHooks : HookExternal(e)
  \/ \E c \in DOMAIN calls, input \in Inputs : StartValidate(c, input)
  \/ \E c \in DOMAIN calls : RunHandler(c)
  \/ \E c \in DOMAIN calls : AwaitHandler(c)
  \/ \E c \in DOMAIN calls : BeforeDone(c)
  \/ \E c \in DOMAIN calls : ConsultRule(c)
  \/ \E c \in DOMAIN calls : RuleDone(c)
  \/ \E c \in DOMAIN calls : FireAfter(c)
  \/ \E c \in DOMAIN calls : AfterDone(c)
  \/ \E c \in DOMAIN calls : Reset(c)

Spec == Init /\ [][Next]_vars

\* the validate command in an environment: project root, rules directory, arguments, stdin
InitCli ==
  /\ rules = <<>>
  /\ hooks = [ch \in Channels |-> <<>>]
  /\ calls = [c \in CallIds |-> IdleCall]
  /\ \E wr \in BOOLEAN, root \in BOOLEAN, d \in RulesDirs, us \in BOOLEAN, t \in StdinTexts :
       cli = CliStart(wr, root, d, us, t)
  /\ loader = LoaderOff

NextCli ==
  \/ CliFindRoot
  \/ CliLoadRules
  \/ CliRegister
  \/ CliReadInput
  \/ \E c \in DOMAIN calls : RunHandler(c)
  \/ \E c \in DOMAIN calls : AwaitHandler(c)
  \/ \E c \in DOMAIN calls : BeforeDone(c)
  \/ \E c \in DOMAIN calls : ConsultRule(c)
  \/ \E c \in DOMAIN calls : RuleDone(c)
  \/ \E c \in DOMAIN calls : FireAfter(c)
  \/ \E c \in DOMAIN calls : AfterDone(c)
  \/ CliFinish

SpecCli == InitCli /\ [][NextCli]_vars

\* one continuation of the call c: the event loop runs whichever is ready
Step(c) ==
  \/ RunHandler(c)
  \/ AwaitHandler(c)
  \/ BeforeDone(c)
  \/ ConsultRule(c)
  \/ RuleDone(c)
  \/ FireAfter(c)
  \/ AfterDone(c)

\* the engine with handlers and rules that terminate: a continuation that is
\* ready is run, and a pending rule.validate settles
SpecLive == Init /\ [][Next]_vars /\ \A c \in CallIds : WF_vars(Step(c))

\* two calls on one engine
TwoCalls == {"c1", "c2"}

\* the requests of two calls made together
TwoInputs ==
  { HookInput("Write", TRUE, ToolInput("x.ts", "bad", UNDEF, UNDEF)),
    HookInput("Write", TRUE, ToolInput("y.md", "ok", UNDEF, UNDEF)),
    HookInput("Edit", TRUE, ToolInput("y.md", UNDEF, "bad", "ok")) }

\* Promise.all([validate(in1), validate(in2)]): each call runs to its first await
StartTwo(in1, in2) ==
  /\ AllIdle
  /\ calls' = [calls EXCEPT !["c1"] = Begin(calls["c1"], hooks, in1),
                            !["c2"] = Begin(calls["c2"], hooks, in2)]
  /\ UNCHANGED <<rules, hooks, cli, loader>>

InitTwo ==
  /\ rules = <<>>
  /\ hooks = [ch \in Channels |-> <<>>]
  /\ calls = [c \in TwoCalls |-> IdleCall]
  /\ cli = CliOff
  /\ loader = LoaderOff

\* the continuations of the two calls run in any order
NextTwo ==
  \/ \E r \in RuleIds : RegisterRule(r)
  \/ \E in1 \in TwoInputs, in2 \in TwoInputs : StartTwo(in1, in2)
  \/ \E c \in DOMAIN calls : RunHandler(c)
  \/ \E c \in DOMAIN calls : AwaitHandler(c)
  \/ \E c \in DOMAIN calls : BeforeDone(c)
  \/ \E c \in DOMAIN calls : ConsultRule(c)
  \/ \E c \in DOMAIN calls : RuleDone(c)
  \/ \E c \in DOMAIN calls : FireAfter(c)
  \/ \E c \in DOMAIN calls : AfterDone(c)

SpecTwo == InitTwo /\ [][NextTwo]_vars

\* the engine with handlers that may write to the context
NextCtx ==
  \/ \E r \in RuleIds : RegisterRule(r)
  \/ \E e \in CtxHooks : HookExternal(e)
  \/ \E c \in DOMAIN calls, input \in Inputs : StartValidate(c, input)
  \/ \E c \in DOMAIN calls : RunHandler(c)
  \/ \E c \in DOMAIN calls : AwaitHandler(c)
  \/ \E c \in DOMAIN calls : BeforeDone(c)
  \/ \E c \in DOMAIN calls : ConsultRule(c)
  \/ \E c \in DOMAIN calls : RuleDone(c)
  \/ \E c \in DOMAIN calls : FireAfter(c)
  \/ \E c \in DOMAIN calls : AfterDone(c)
  \/ \E c \in DOMAIN calls : Reset(c)

SpecCtx == Init /\ [][NextCtx]_vars

\* the engine used as a library by a caller that renders the results
NextFormat ==
  \/ \E r \in RuleIds : RegisterRule(r)
  \/ \E e \in ExtHooks : HookExternal(e)
  \/ \E c \in DOMAIN calls, input \in Inputs : StartValidate(c, input)
  \/ \E c \in DOMAIN calls : RunHandler(c)
  \/ \E c \in DOMAIN calls : AwaitHandler(c)
  \/ \E c \in DOMAIN calls : BeforeDone(c)
  \/ \E c \in DOMAIN calls : ConsultRule(c)
  \/ \E c \in DOMAIN calls : RuleDone(c)
  \/ \E c \in DOMAIN calls : FireAfter(c)
  \/ \E c \in DOMAIN calls : AfterDone(c)
  \/ \E c \in DOMAIN calls : FormatResult(c)
  \/ \E c \in DOMAIN calls : Reset(c)

SpecFormat == Init /\ [][NextFormat]_vars

\* validate called with any raw request on an engine without rules or handlers
NextParse ==
  \/ \E c \in DOMAIN calls, input \in RawInputs : StartValidate(c, input)
  \/ \E c \in DOMAIN calls : BeforeDone(c)
  \/ \E c \in DOMAIN calls : FireAfter(c)
  \/ \E c \in DOMAIN calls : AfterDone(c)
  \/ \E c \in DOMAIN calls : Reset(c)

SpecParse == Init /\ [][NextParse]_vars

\* one loadRules call over a rules directory
InitLoad ==
  /\ rules = <<>>
  /\ hooks = [ch \in Channels |-> <<>>]
  /\ calls = [c \in CallIds |-> IdleCall]
  /\ cli = CliOff
  /\ \E d \in LoadDirs : loader = LoaderStart(d)

NextLoad ==
  \/ LoadGlob
  \/ LoadImport
  \/ LoadReturn

SpecLoad == InitLoad /\ [][NextLoad]_vars

(***************************************************************************)
(* What the statements below speak about.                                  *)
(***************************************************************************)
\* the call has a context: parseInput returned
HasCtx(cl) == cl.pc # "idle" /\ ~ParseInputThrows(cl.input)

\* rule i's shouldRun(context) returns true
Applicable(i, ctx) == ~ShouldRunThrows(rules[i], ctx) /\ ShouldRun(rules[i], ctx)

\* what rule i's validate returns for the context
Diags(i, ctx) == RuleValidate(rules[i], ctx)

NoExternal == NumExt(hooks) = 0

\* the positions of the log where an event of kind ev stands
At(cl, ev) == {p \in 1..Len(cl.log) : cl.log[p].ev = ev}

\* d stands in errors as a block that starts at or after position from
BlockAt(errors, d, p) == p >= 1 /\ p + Len(d) - 1 <= Len(errors) /\ SubSeq(errors, p, p + Len(d) - 1) = d

\* the diagnostics of the applicable rules among rules i.., in registration order
RECURSIVE Expected(_, _)
Expected(i, ctx) ==
  IF i > Len(rules) THEN <<>>
  ELSE (IF Applicable(i, ctx) THEN Diags(i, ctx) ELSE <<>>) \o Expected(i + 1, ctx)

(***************************************************************************)
(* C1: for two rules A and B registered in that order, both applicable    *)
(* and both returning diagnostics, the errors of the result hold A's      *)
(* diagnostics, in their order, before B's, in their order.  Stated for   *)
(* an engine with no handlers of its user's.                              *)
(***************************************************************************)
C1_RuleOrder ==
  \A c \in DOMAIN calls :
    LET cl == calls[c]
    IN (cl.pc = "returned" /\ NoExternal) =>
         \A i, j \in 1..Len(rules) :
           (/\ i < j
            /\ Applicable(i, cl.ctx) /\ Applicable(j, cl.ctx)
            /\ Diags(i, cl.ctx) # <<>> /\ Diags(j, cl.ctx) # <<>>)
           => \E p, q \in 1..Len(cl.result.errors) :
                /\ BlockAt(cl.result.errors, Diags(i, cl.ctx), p)
                /\ BlockAt(cl.result.errors, Diags(j, cl.ctx), q)
                /\ p + Len(Diags(i, cl.ctx)) <= q

(***************************************************************************)
(* C2, as stated: when no registered rule's shouldRun returns true, the   *)
(* call returns a result with valid = true and errors = [].               *)
(***************************************************************************)
NoneApplicable(cl) == \A i \in 1..Len(rules) : ~Applicable(i, cl.ctx)

\* every registered rule's shouldRun returns false
AllDecline(cl) ==
  \A i \in 1..Len(rules) : ~ShouldRunThrows(rules[i], cl.ctx) /\ ~ShouldRun(rules[i], cl.ctx)

C2_AsStated ==
  \A c \in DOMAIN calls :
    LET cl == calls[c]
    IN (Finished(cl) /\ HasCtx(cl) /\ AllDecline(cl)) =>
         (cl.pc = "returned" /\ cl.result.valid /\ cl.result.errors = <<>>)

\* a handler of the user's on validate:after that adds to the aggregate
AfterAdds == \E k \in 1..Len(hooks[AfterChannel]) : hooks[AfterChannel][k].kind = "push"

(***************************************************************************)
(* C2, amended: when no registered rule's shouldRun returns true and no   *)
(* handler added to validate:after adds to the aggregate, a call that     *)
(* returns returns valid = true and errors = [].                          *)
(***************************************************************************)
C2_NoneApplicable ==
  \A c \in DOMAIN calls :
    LET cl == calls[c]
    IN (cl.pc = "returned" /\ NoneApplicable(cl) /\ ~AfterAdds) =>
         (cl.result.valid /\ cl.result.errors = <<>>)

\* a call returned valid although a registered, inapplicable rule has diagnostics to give
C2_Witness ==
  \E c \in DOMAIN calls :
    LET cl == calls[c]
    IN /\ cl.pc = "returned" /\ NoneApplicable(cl) /\ ~AfterAdds
       /\ \E i \in 1..Len(rules) : ~ShouldRunThrows(rules[i], cl.ctx) /\ Diags(i, cl.ctx) # <<>>
       /\ cl.result.valid

(***************************************************************************)
(* C3: in every result validate returns, valid is true exactly when       *)
(* errors is empty, also when a validate:after handler changed the        *)
(* aggregate.                                                              *)
(***************************************************************************)
C3_ValidIffEmpty ==
  \A c \in DOMAIN calls :
    calls[c].pc = "returned" => (calls[c].result.valid <=> calls[c].result.errors = <<>>)

\* a result whose errors a validate:after handler emptied or filled
C3_Witness ==
  \E c \in DOMAIN calls :
    LET cl == calls[c]
    IN /\ cl.pc = "returned"
       /\ cl.result.errors # FiredWith(cl)
       /\ (cl.result.errors = <<>> \/ FiredWith(cl) = <<>>)

(***************************************************************************)
(* C4: when an applicable rule's validate throws, or the shouldRun of a   *)
(* rule the loop consults throws, the call raises and never returns a     *)
(* result.                                                                 *)
(***************************************************************************)
Consulted(cl, i) == \E p \in At(cl, "shouldRun") : cl.log[p].idx = i

MustRaise(cl) ==
  \E i \in 1..Len(rules) :
    \/ Consulted(cl, i) /\ ShouldRunThrows(rules[i], cl.ctx)
    \/ Applicable(i, cl.ctx) /\ RuleValidateThrows(rules[i], cl.ctx)

C4_ThrowPropagates ==
  \A c \in DOMAIN calls :
    LET cl == calls[c]
    IN (HasCtx(cl) /\ MustRaise(cl)) =>
         (cl.pc # "returned" /\ (Finished(cl) => cl.pc = "raised"))

\* a call raised out of the validate of an applicable rule
C4_Witness ==
  \E c \in DOMAIN calls :
    LET cl == calls[c]
    IN /\ cl.pc = "raised" /\ HasCtx(cl)
       /\ \E p \in At(cl, "start") :
            /\ cl.log[p].pos > 0
            /\ Applicable(cl.log[p].pos, cl.ctx)
            /\ RuleValidateThrows(rules[cl.log[p].pos], cl.ctx)
            /\ p = Len(cl.log)

(***************************************************************************)
(* C5: a registered rule whose shouldRun returns false is skipped: no     *)
(* channel is invoked on its behalf, its validate is not executed, and    *)
(* its diagnostics are not in errors.  Stated for an engine with no       *)
(* handlers of its user's and no rule named like a lifecycle channel.     *)
(***************************************************************************)
\* no rule's channel is validate:before or validate:after
NoLifecycleName ==
  \A i \in 1..Len(rules) : RuleChannel(RuleName(rules[i])) \notin {BeforeChannel, AfterChannel}

C5_Skipped ==
  \A c \in DOMAIN calls :
    LET cl == calls[c]
    IN (HasCtx(cl) /\ NoExternal /\ NoLifecycleName) =>
         \A i \in 1..Len(rules) :
           (~ShouldRunThrows(rules[i], cl.ctx) /\ ~ShouldRun(rules[i], cl.ctx)) =>
             /\ \A p \in At(cl, "fire") : cl.log[p].idx # i
             /\ \A p \in At(cl, "start") : cl.log[p].pos # i
             /\ cl.pc = "returned" =>
                  \A k \in 1..Len(cl.result.errors), m \in 1..Len(Diags(i, cl.ctx)) :
                    cl.result.errors[k] # Diags(i, cl.ctx)[m]

(***************************************************************************)
(* C6: with no handlers added from outside, errors is the concatenation,  *)
(* in registration order, of what the validate of each applicable rule    *)
(* returned.                                                               *)
(***************************************************************************)
C6_Concatenation ==
  \A c \in DOMAIN calls :
    LET cl == calls[c]
    IN (cl.pc = "returned" /\ NoExternal) => cl.result.errors = Expected(1, cl.ctx)

(***************************************************************************)
(* C7: the validate command exits with 0 exactly when validation ran and  *)
(* the result is valid, with 2 exactly when it ran and the result is      *)
(* invalid, the formatted diagnostics written to the error stream before, *)
(* and with 1 when stdin is not JSON, no rule was discovered, or the      *)
(* rules directory or the project root cannot be resolved.                *)
(***************************************************************************)
Ran == calls["c1"].pc = "returned"

C7_ExitCodes ==
  cli.pc = "exited" =>
    /\ cli.exit \in {0, 1, 2}
    /\ cli.exit = 0 <=> (Ran /\ calls["c1"].result.valid)
    /\ cli.exit = 2 <=> (Ran /\ ~calls["c1"].result.valid)
    /\ cli.exit = 2 =>
         /\ cli.stderr = <<FormatErrors(calls["c1"].result.errors)>>
         /\ FormatErrors(calls["c1"].result.errors) # <<>>
    /\ (cli.withRoot /\ ~cli.root) => cli.exit = 1
    /\ (cli.dir.fails \/ LoadRules(cli.dir) = <<>>) => cli.exit = 1
    /\ ~cli.stdin.json => cli.exit = 1

\* the command blocked a write: exit 2 with the diagnostics on the error stream
C7_Witness ==
  /\ cli.pc = "exited" /\ cli.exit = 2
  /\ Len(calls["c1"].result.errors) >= 2
  /\ Len(cli.stderr) = 1 /\ Len(cli.stderr[1]) >= 4

(***************************************************************************)
(* C8: in a call that returns, validate:before is fired exactly once,     *)
(* before any shouldRun, and validate:after exactly once, after the last  *)
(* rule is done, with the aggregate that becomes result.errors.  Stated   *)
(* for an engine with no handlers of its user's.                          *)
(***************************************************************************)
Fired(cl, ch) == {p \in At(cl, "fire") : cl.log[p].ch = ch}

C8_BeforeAfterOnce ==
  \A c \in DOMAIN calls :
    LET cl == calls[c]
    IN (cl.pc = "returned" /\ NoExternal) =>
         /\ Cardinality(Fired(cl, BeforeChannel)) = 1
         /\ \A p \in Fired(cl, BeforeChannel), q \in At(cl, "shouldRun") : p < q
         /\ Cardinality(Fired(cl, AfterChannel)) = 1
         /\ \A p \in Fired(cl, AfterChannel), q \in At(cl, "shouldRun") \cup At(cl, "done") : q < p
         /\ \A p \in Fired(cl, AfterChannel) : cl.log[p].arg = cl.result.errors

(***************************************************************************)
(* C9: rules are evaluated one after another in registration order: when  *)
(* shouldRun of a rule is evaluated, every check started before it has    *)
(* completed and the rule before it is done, its diagnostics appended;    *)
(* no two checks are in progress at once.                                 *)
(***************************************************************************)
\* the checks begun and not completed among the first p events
Open(cl, p) ==
  Cardinality({q \in At(cl, "start") : q <= p}) - Cardinality({q \in At(cl, "end") : q <= p})

C9_Sequential ==
  \A c \in DOMAIN calls :
    LET cl == calls[c]
    IN /\ Cardinality(cl.running) <= 1
       /\ \A p \in 1..Len(cl.log) : Open(cl, p) \in {0, 1}
       /\ \A p \in At(cl, "shouldRun") :
            /\ Open(cl, p) = 0
            /\ cl.log[p].idx > 1 =>
                 \E q \in At(cl, "shouldRun") :
                   /\ q < p
                   /\ cl.log[q].idx = cl.log[p].idx - 1
                   /\ \A r \in At(cl, "shouldRun") : r < p => r <= q
                   /\ Applicable(cl.log[q].idx, cl.ctx) =>
                        \E d \in At(cl, "done") :
                          /\ q < d /\ d < p
                          /\ cl.log[d].idx = cl.log[q].idx
                          /\ \A f \in At(cl, "fire") : (q < f /\ f < p) => f < d

\* the check of an asynchronous rule is in progress and a later rule waits
C9_Witness ==
  \E c \in DOMAIN calls :
    LET cl == calls[c]
    IN /\ cl.pc = "rule" /\ cl.busy /\ cl.running # {}
       /\ cl.i < Len(rules)

(***************************************************************************)
(* C10: invoking a channel runs every handler registered on it, one at a  *)
(* time in registration order, each settled before the next starts; with  *)
(* two rules of one name registered, invoking their channel runs the      *)
(* handlers of both.                                                       *)
(***************************************************************************)
\* the events of the channel invocation in progress
Segment(cl) ==
  LET f == CHOOSE p \in At(cl, "fire") : \A q \in At(cl, "fire") : q <= p
  IN SubSeq(cl.log, f + 1, Len(cl.log))

\* handlers 1..n of the channel, each started and settled, in order
RECURSIVE Serial(_, _)
Serial(cl, n) ==
  IF n = 0 THEN <<>>
  ELSE Serial(cl, n - 1) \o <<Ev("start", cl.chan, n, cl.hk[n].pos, <<>>),
                              Ev("end", cl.chan, n, cl.hk[n].pos, <<>>)>>

C10_SerialHandlers ==
  \A c \in DOMAIN calls :
    LET cl == calls[c]
    IN InHook(cl) =>
         /\ cl.hk = hooks[cl.chan]
         /\ \A j \in 1..Len(rules) :
              RuleChannel(RuleName(rules[j])) = cl.chan =>
                \E k \in 1..Len(cl.hk) : cl.hk[k] = RuleHandler(rules[j], j)
         /\ cl.k >= 1 /\ cl.k <= Len(cl.hk) + 1
         /\ cl.busy => cl.k <= Len(cl.hk)
         /\ Segment(cl) = Serial(cl, cl.k - 1) \o
              (IF cl.busy THEN <<Ev("start", cl.chan, cl.k, cl.hk[cl.k].pos, <<>>)>> ELSE <<>>)

\* the channel of two rules of one name was invoked and both handlers have run
C10_Witness ==
  \E c \in DOMAIN calls :
    LET cl == calls[c]
    IN /\ cl.pc = "rule" /\ HookSettled(cl)
       /\ Len(cl.hk) = 2
       /\ cl.hk[1].kind = "rule" /\ cl.hk[2].kind = "rule"
       /\ cl.hk[1].rule # cl.hk[2].rule
       /\ Len(Segment(cl)) = 4

(***************************************************************************)
(* Statements about loadRules.                                             *)
(***************************************************************************)
\* the loadRules call has resolved after enumerating the directory
Discovered == loader.pc = "returned" /\ ~loader.dir.fails

\* the positions of files whose import fails
Failing(files) == {k \in 1..Len(files) : ~files[k].loads}

\* rule r stands in the sequence rs
Among(r, rs) == \E p \in 1..Len(rs) : rs[p] = r

\* C11: a candidate file that fails to load produces one warning and is skipped
\* without aborting discovery: the call returns through `return rules`, it has
\* warned once for each failing candidate, and every rule exported by a
\* candidate that loads is in the result, wherever the failing files stand.
C11_FailingFileSkipped ==
  Discovered =>
    /\ ~loader.logged
    /\ Len(loader.warned) = Cardinality(Failing(loader.ruleFiles))
    /\ \A k \in 1..Len(loader.ruleFiles) :
         LET f == loader.ruleFiles[k]
         IN IF f.loads
            THEN \A j \in 1..Len(f.exports) :
                   IsValidationRule(f.exports[j]) => Among(f.exports[j].rule, loader.result)
            ELSE \E w \in 1..Len(loader.warned) : loader.warned[w] = f

\* C11 happens: two candidates failed, the first before and the second after
\* one that loaded, and the loaded one's rule was returned
C11_Witness ==
  /\ Discovered
  /\ Len(loader.ruleFiles) = 3
  /\ Failing(loader.ruleFiles) = {1, 3}
  /\ Len(loader.result) > 0

\* an exported value with the four members of a rule
FourMembers(e) ==
  e.obj /\ e.name = "string" /\ e.description = "string"
        /\ e.shouldRun = "function" /\ e.validate = "function"

\* the exports, as <<file, export>> positions, of the candidates that loaded
LoadedExports(files) ==
  UNION {{<<k, j>> : j \in 1..Len(files[k].exports)} : k \in {k \in 1..Len(files) : files[k].loads}}

\* C12: loadRules returns exactly the exported values of the successfully
\* loaded candidate modules that are objects with a string name, a string
\* description, a function shouldRun and a function validate: each such export
\* is returned, once, and nothing else is; rule-a.ts, rule-a.test.ts and
\* not-a-rule.ts (an object without validate) yield exactly the rule of rule-a.ts.
C12_ExactlyTheRules ==
  Discovered =>
    LET files == loader.ruleFiles
        good == {q \in LoadedExports(files) : FourMembers(files[q[1]].exports[q[2]])}
    IN /\ Len(loader.result) = Cardinality(good)
       /\ \A q \in good : Among(files[q[1]].exports[q[2]].rule, loader.result)
       /\ \A p \in 1..Len(loader.result) :
            \E q \in good : files[q[1]].exports[q[2]].rule = loader.result[p]
       /\ (loader.dir.files = <<FileA, FileATest, FileNotARule>> => loader.result = <<"rA">>)

\* C12 happens: the directory of the example has been discovered
C12_Witness == Discovered /\ loader.dir.files = <<FileA, FileATest, FileNotARule>>

\* a test or spec file (*.test.* or *.spec.*), or a file under node_modules
Excluded(f) ==
  \/ f.mid \in {"test", "spec"}
  \/ \E k \in 1..Len(f.dirs) : f.dirs[k] = "node_modules"

\* C13: loadRules excludes test and spec files, .ts and .js alike, and
\* everything under node_modules: no such file is ever loaded, and only .ts
\* and .js files are.
C13_TestFilesExcluded ==
  loader.pc # "off" =>
    \A k \in 1..Len(loader.loaded) :
      ~Excluded(loader.loaded[k]) /\ loader.loaded[k].ext \in {"ts", "js"}

\* C14: loadRules never raises: a call is enumerating, importing or has
\* resolved to a sequence of rules, and when the enumeration of the directory
\* fails it resolves to the empty sequence.
C14_NeverRaises ==
  loader.pc # "off" =>
    /\ loader.pc \in {"glob", "files", "returned"}
    /\ \A p \in 1..Len(loader.result) : loader.result[p] \in RuleIds
    /\ (loader.pc = "returned" /\ loader.dir.fails => loader.result = <<>>)

\* C14 happens: the enumeration failed and the call has resolved
C14_Witness == loader.pc = "returned" /\ loader.dir.fails /\ loader.logged

(***************************************************************************)
(* Statements about parseInput.                                            *)
(***************************************************************************)
Present(v) == v # UNDEF

\* every payload field of the request is a string or absent
StringFields(input) ==
  \A v \in {input.tool_input.file_path, input.tool_input.content,
            input.tool_input.new_string, input.tool_input.old_string} :
    v \notin {JNULL, ZERO, NUM}

\* C15: content is the payload's content whenever that field is present,
\* otherwise new_string if present, otherwise ""; oldContent is old_string if
\* present, else ""; operation is 'edit' exactly when tool_name is 'Edit'.
\* Stated for requests whose payload fields are strings.
C15_ContentIfPresent ==
  \A c \in DOMAIN calls :
    LET cl == calls[c]
        ti == cl.input.tool_input
    IN HasCtx(cl) /\ StringFields(cl.input) =>
         /\ cl.ctx.content = IF Present(ti.content) THEN ti.content
                             ELSE IF Present(ti.new_string) THEN ti.new_string ELSE ""
         /\ cl.ctx.oldContent = IF Present(ti.old_string) THEN ti.old_string ELSE ""
         /\ cl.ctx.operation = IF cl.input.tool_name = "Edit" THEN "edit" ELSE "write"

\* C16: parseInput never fails on a raw request object, tool_input absent
\* included, and the fields it could not take from the request are empty strings.
C16_NeverFails ==
  \A c \in DOMAIN calls :
    LET cl == calls[c]
        ti == cl.input.tool_input
    IN cl.pc # "idle" /\ cl.input.obj =>
         /\ cl.pc # "raised"
         /\ (~Present(ti.file_path) => cl.ctx.filePath = "")
         /\ (~Present(ti.content) /\ ~Present(ti.new_string) => cl.ctx.content = "")
         /\ (~Present(ti.old_string) => cl.ctx.oldContent = "")

(***************************************************************************)
(* Statements about the result and the run of a call.                      *)
(***************************************************************************)
\* C17: formatErrors() returns the empty string when errors is empty;
\* otherwise the header, then every diagnostic of errors in errors order,
\* consecutive diagnostics separated by a blank line.  The string is given by
\* its pieces: none for the empty string.
C17_Rendering ==
  \A c \in DOMAIN calls :
    LET t == calls[c].text.val
        e == calls[c].result.errors
    IN calls[c].pc = "returned" /\ calls[c].text.def =>
         IF e = <<>> THEN t = <<>>
         ELSE /\ Len(t) = 2 * Len(e)
              /\ t[1] = Header
              /\ \A k \in 1..Len(e) : t[2 * k] = e[k]
              /\ \A k \in 1..(Len(e) - 1) : t[2 * k + 1] = "\n\n"

\* C17 happens: a result with two or more diagnostics has been rendered
C17_Witness ==
  \E c \in DOMAIN calls :
    calls[c].pc = "returned" /\ calls[c].text.def /\ Len(calls[c].result.errors) >= 2

\* C18: with handlers and rules that terminate, a validate call that has
\* begun eventually returns a result or raises.
C18_Terminates ==
  \A c \in CallIds : (calls[c].pc \notin {"idle", "returned", "raised"}) ~> Finished(calls[c])

\* C18 happens: a call that awaited an asynchronous rule has returned
C18_Witness ==
  \E c \in DOMAIN calls :
    /\ calls[c].pc = "returned"
    /\ \E p \in 1..Len(calls[c].log) :
         /\ calls[c].log[p].ev = "end"
         /\ calls[c].log[p].pos > 0
         /\ calls[c].log[p].pos <= Len(rules)
         /\ RuleAsync(rules[calls[c].log[p].pos])

\* C19: the context of a call is built once and immutable afterwards: a rule
\* whose channel is invoked is handed the toolName, filePath, content,
\* oldContent and operation that parseInput produced from the input.
C19_ContextImmutable ==
  \A c \in DOMAIN calls :
    calls[c].pc = "rule" => calls[c].ctx = ParseInput(calls[c].input)

\* no two registered rules have the same name
DistinctNames ==
  \A i, j \in 1..Len(rules) : i # j => RuleName(rules[i]) # RuleName(rules[j])

\* the handlers added through getHooks() are observers of rule channels
ObserversOnly ==
  \A ch \in Channels : \A k \in 1..Len(hooks[ch]) :
    IsExt(hooks[ch][k]) => hooks[ch][k].kind = "observe" /\ ch \notin {BeforeChannel, AfterChannel}

\* C20: an observer added to a rule's channel through getHooks(), a handler
\* that returns no value, does not change the verdict: valid and errors are
\* what the applicable rules' diagnostics make them without it.  Stated for
\* rules with distinct names, none named like a lifecycle channel.
C20_ObserverKeepsVerdict ==
  \A c \in DOMAIN calls :
    LET cl == calls[c]
    IN (cl.pc = "returned" /\ DistinctNames /\ NoLifecycleName /\ ObserversOnly) =>
         /\ cl.result.errors = Expected(1, cl.ctx)
         /\ cl.result.valid = (Expected(1, cl.ctx) = <<>>)

(***************************************************************************)
(* Statements about a call that raises, the command's order of steps, and  *)
(* what a call leaves behind.                                              *)
(***************************************************************************)
\* the call raised at rule i: out of its shouldRun or, applicable, out of its validate
ThrewAt(cl, i) ==
  /\ cl.pc = "raised" /\ HasCtx(cl) /\ cl.i = i
  /\ \/ ShouldRunThrows(rules[i], cl.ctx)
     \/ Applicable(i, cl.ctx) /\ RuleValidateThrows(rules[i], cl.ctx)

\* C21: when a rule's shouldRun or an applicable rule's validate throws, the
\* call aborts at that rule: no rule registered after it has its shouldRun or
\* its validate invoked in that call, and the validate:after channel is not
\* fired for that call.
C21_AbortsAtRule ==
  \A c \in DOMAIN calls : \A i \in 1..Len(rules) :
    LET cl == calls[c]
    IN ThrewAt(cl, i) =>
         /\ \A p \in At(cl, "shouldRun") : cl.log[p].idx <= i
         /\ \A p \in At(cl, "start") : cl.log[p].pos <= i
         /\ Fired(cl, AfterChannel) = {}

\* discovery over the command's rules directory yields no rule
NoRulesFound == cli.dir.fails \/ LoadFiles(cli.dir.files) = <<>>

\* C22: the command decides the zero-rules failure before it reads its
\* input: when discovery yields no rules, stdin is never read or parsed and
\* validate is never called, and the command exits with 1, never with 0 or 2.
C22_ZeroRulesFirst ==
  (cli.pc # "off" /\ NoRulesFound) =>
    /\ ~cli.read
    /\ calls["c1"].pc = "idle"
    /\ rules = <<>>
    /\ cli.pc = "exited" => cli.exit = 1

\* C22 happens: a directory with files but no rule, a well-formed request on
\* stdin, and the command has exited at the discovery step
C22_Witness ==
  /\ cli.pc = "exited"
  /\ ~cli.dir.fails /\ Len(cli.dir.files) > 0 /\ NoRulesFound
  /\ cli.useStdin /\ cli.stdin.json /\ ~ParseInputThrows(cli.stdin.value)
  /\ ~(cli.withRoot /\ ~cli.root)

\* a call is under way before or after the step
InCall == \E c \in DOMAIN calls : calls[c].pc # "idle" \/ calls'[c].pc # "idle"

\* C23: a validate call leaves the engine unchanged: from the step that
\* begins it to the one that hands its result or its exception to the
\* caller, the registered rule sequence and the handlers bound on every
\* channel stay what they were, so a later call consults the same rules in
\* the same order.
C23_EngineUnchanged == [][InCall => (rules' = rules /\ hooks' = hooks)]_vars

\* C23 happens: a call has raised on an engine with rules and a handler of
\* its user's
C23_Witness ==
  \E c \in DOMAIN calls :
    /\ calls[c].pc = "raised" /\ HasCtx(calls[c])
    /\ Len(rules) = MaxRules
    /\ NumExt(hooks) > 0

\* C24: when two validate calls on one engine overlap, the errors of each
\* call's result are exactly the diagnostics of the rules applicable to that
\* call's own context, in rule order, and every entry of them is a
\* diagnostic some rule produces for that context.
C24_CallsIsolated ==
  \A c \in DOMAIN calls :
    LET cl == calls[c]
    IN cl.pc = "returned" =>
         /\ cl.result.errors = Expected(1, cl.ctx)
         /\ \A k \in 1..Len(cl.result.errors) :
              \E i \in 1..Len(rules) : \E m \in 1..Len(Diags(i, cl.ctx)) :
                cl.result.errors[k] = Diags(i, cl.ctx)[m]

====
